---- MODULE Spec2Model ----
(***************************************************************************)
(* A model of voiceai.py: the entrypoint coroutine (credential checks, the *)
(* four capability slots with their primary and fallback constructors,     *)
(* session creation, session start and the initial greeting), and the      *)
(* Assistant class (the two script checks, _should_respond_in_urdu and the *)
(* overridden say).                                                        *)
(***************************************************************************)
EXTENDS Integers, Sequences, FiniteSets, TLC

VARIABLES
    \* ---- entrypoint (voiceai.py:137-275)
    env,            \* os.getenv of the four credential variables
    pc,             \* position of the entrypoint coroutine
    stt, llm, tts, vad,   \* the four local handles, Unbound until assigned
    assistant,      \* TRUE once Assistant() has been constructed
    session,        \* "none", "created" (AgentSession(...)), "started"
    log,            \* logger records written by entrypoint, in order
    calls,          \* external calls made by entrypoint, in order, with outcome
    outcome,        \* "running", "returned", "raised"
    raised,         \* the class of the exception leaving entrypoint, or "none"
    \* ---- Assistant (voiceai.py:23-130)
    user_language_preference,   \* self.user_language_preference
    conversation_history,       \* self.conversation_history
    \* ---- one call of Assistant.say (voiceai.py:105-130)
    sayPc,          \* "idle", "audit", "call", "except"
    sayArgs,        \* message, allow_interruptions, add_to_chat_ctx of the call
    primCalls,      \* the calls of super().say made by this call, with outcome
    sayOutcome,     \* "none", "running", "returned", "raised"
    sayReturn,      \* the value returned to the caller
    sayRaised,      \* the class of the exception leaving say, or "none"
    sayLog,         \* logger records written by this call
    turns,          \* calls of say completed so far
    \* ---- calls of the script functions (voiceai.py:65-103)
    user_input,     \* the text the functions are called on
    hindiResults,   \* what _is_hindi_input returned, call by call
    urduResults,    \* what _is_urdu_script returned, call by call
    decisions,      \* what _should_respond_in_urdu returned, call by call
    \* ---- one conversational turn of the started session (voiceai.py:242-260)
    turnStage,      \* the stage the turn is in
    transcript,     \* the text transcribed from the user's speech this turn
    stageTrace,     \* the stages this turn has passed through, in order
    prompt,         \* what the language model was last asked with
    turnsHeld       \* turns completed so far

evars == <<env, pc, stt, llm, tts, vad, assistant, session, log, calls, outcome, raised>>
ovars == <<user_language_preference, conversation_history>>
avars == <<sayPc, sayArgs, primCalls, sayOutcome, sayReturn, sayRaised, sayLog, turns>>
svars == <<user_input, hindiResults, urduResults, decisions>>

tvars == <<turnStage, transcript, stageTrace, prompt, turnsHeld>>

vars == <<evars, ovars, avars, svars, tvars>>

----------------------------------------------------------------------------
(* Values *)

\* os.getenv gives None for an unset variable; an empty string is a set
\* variable that is falsy all the same.
Unset == "<None>"
EnvValues == {Unset, "", "key"}

\* Python truthiness of an os.getenv result (the `not x` tests, 147-155).
Truthy(v) == v # Unset /\ v # ""

Slots == <<"STT", "LLM", "TTS", "VAD">>
SlotSet == {"STT", "LLM", "TTS", "VAD"}
Attempts == {"primary", "fallback"}

\* The configuration each constructor call is made with.
Config(slot, attempt) ==
    CASE slot = "STT" /\ attempt = "primary"  -> "groq.STT(whisper-large-v3-turbo)"
      [] slot = "STT" /\ attempt = "fallback" -> "deepgram.STT(nova-3)"
      [] slot = "LLM" /\ attempt = "primary"  -> "groq.LLM(qwen/qwen3-32b)"
      [] slot = "LLM" /\ attempt = "fallback" -> "groq.LLM(llama-3.3-70b-versatile)"
      [] slot = "TTS" /\ attempt = "primary"  -> "azure.TTS(ur-PK-AsadNeural)"
      [] slot = "TTS" /\ attempt = "fallback" -> "azure.TTS(en-US-AriaNeural)"
      [] slot = "VAD" /\ attempt = "primary"  -> "silero.VAD.load(0.5,0.3)"
      [] slot = "VAD" /\ attempt = "fallback" -> "silero.VAD.load()"

\* A local that has not been assigned, and the handle a constructor returns.
Unbound == [slot |-> "-", attempt |-> "-", config |-> "-"]
Handle(slot, attempt) == [slot |-> slot, attempt |-> attempt, config |-> Config(slot, attempt)]

\* A constructor call as recorded in calls.
Ctor(slot, attempt, ok) ==
    [op |-> "construct", slot |-> slot, attempt |-> attempt,
     config |-> Config(slot, attempt), result |-> IF ok THEN "ok" ELSE "Exception"]

\* Any other external call as recorded in calls.
Ext(op, res) == [op |-> op, slot |-> "-", attempt |-> "-", config |-> "-", result |-> res]

\* A logger record.
Rec(level, msg) == [level |-> level, msg |-> msg]

\* What an awaited external coroutine can do: return, raise an Exception,
\* or be cancelled (asyncio.CancelledError derives from BaseException only).
AwaitOutcomes == {"ok", "Exception", "CancelledError"}
\* asyncio.wait_for adds the timeout (asyncio.TimeoutError is an Exception).
GreetingOutcomes == AwaitOutcomes \cup {"TimeoutError"}

----------------------------------------------------------------------------
(* entrypoint *)

EInit ==
    /\ env \in [{"AZURE_SPEECH_KEY", "AZURE_SPEECH_REGION", "GROQ_API_KEY", "DEEPGRAM_API_KEY"}
                  -> EnvValues]
    /\ pc = "validate"
    /\ stt = Unbound /\ llm = Unbound /\ tts = Unbound /\ vad = Unbound
    /\ assistant = FALSE
    /\ session = "none"
    /\ log = <<>>
    /\ calls = <<>>
    /\ outcome = "running"
    /\ raised = "none"

\* `return` from inside the outer try: the coroutine ends normally.
Return ==
    /\ pc' = "done"
    /\ outcome' = "returned"
    /\ raised' = "none"

\* The outer handler without its `raise`: the exception is logged and dropped.
Propagate_Swallows(exc, logged) ==
    /\ pc' = "done"
    /\ outcome' = "returned"
    /\ raised' = "none"
    /\ log' = IF exc = "Exception"
                THEN logged \o <<Rec("error", "Entrypoint error")>>
                ELSE logged

\* An exception reaching the outer handler (273-275): an Exception is
\* logged and re-raised; a BaseException that is not an Exception passes
\* the `except Exception` clause untouched.
Propagate(exc, logged) ==
    /\ pc' = "done"
    /\ outcome' = "raised"
    /\ raised' = exc
    /\ log' = IF exc = "Exception"
                THEN logged \o <<Rec("error", "Entrypoint error")>>
                ELSE logged

\* ValidateEnv without the last credential check.
ValidateEnv_NoDeepgramCheck ==
    /\ pc = "validate"
    /\ LET started == <<Rec("info", "Starting agent initialization...")>> IN
       IF ~Truthy(env["AZURE_SPEECH_KEY"]) \/ ~Truthy(env["AZURE_SPEECH_REGION"])
       THEN /\ log' = started \o
                 <<Rec("error", "Azure Speech credentials not found in environment variables")>>
            /\ Return
       ELSE IF ~Truthy(env["GROQ_API_KEY"])
       THEN /\ log' = started \o
                 <<Rec("error", "Groq API key not found in environment variables")>>
            /\ Return
       ELSE /\ log' = started
            /\ pc' = "assistant"
            /\ UNCHANGED <<outcome, raised>>
    /\ UNCHANGED <<env, stt, llm, tts, vad, assistant, session, calls, ovars, avars, svars, tvars>>

\* ValidateEnv that tests the language-model key before the speech-service pair.
ValidateEnv_GroqFirst ==
    /\ pc = "validate"
    /\ LET started == <<Rec("info", "Starting agent initialization...")>> IN
       IF ~Truthy(env["GROQ_API_KEY"])
       THEN /\ log' = started \o
                 <<Rec("error", "Groq API key not found in environment variables")>>
            /\ Return
       ELSE IF ~Truthy(env["AZURE_SPEECH_KEY"]) \/ ~Truthy(env["AZURE_SPEECH_REGION"])
       THEN /\ log' = started \o
                 <<Rec("error", "Azure Speech credentials not found in environment variables")>>
            /\ Return
       ELSE IF ~Truthy(env["DEEPGRAM_API_KEY"])
       THEN /\ log' = started \o
                 <<Rec("error", "Deepgram API key not found in environment variables")>>
            /\ Return
       ELSE /\ log' = started
            /\ pc' = "assistant"
            /\ UNCHANGED <<outcome, raised>>
    /\ UNCHANGED <<env, stt, llm, tts, vad, assistant, session, calls, ovars, avars, svars, tvars>>

\* 139-157: the start line and the three credential checks.
ValidateEnv ==
    /\ pc = "validate"
    /\ LET started == <<Rec("info", "Starting agent initialization...")>> IN
       IF ~Truthy(env["AZURE_SPEECH_KEY"]) \/ ~Truthy(env["AZURE_SPEECH_REGION"])
       THEN /\ log' = started \o
                 <<Rec("error", "Azure Speech credentials not found in environment variables")>>
            /\ Return
       ELSE IF ~Truthy(env["GROQ_API_KEY"])
       THEN /\ log' = started \o
                 <<Rec("error", "Groq API key not found in environment variables")>>
            /\ Return
       ELSE IF ~Truthy(env["DEEPGRAM_API_KEY"])
       THEN /\ log' = started \o
                 <<Rec("error", "Deepgram API key not found in environment variables")>>
            /\ Return
       ELSE /\ log' = started
            /\ pc' = "assistant"
            /\ UNCHANGED <<outcome, raised>>
    /\ UNCHANGED <<env, stt, llm, tts, vad, assistant, session, calls, ovars, avars, svars, tvars>>

\* 159-160: Assistant() and its log line; a raise goes to the outer handler.
CreateAssistant(res) ==
    /\ pc = "assistant"
    /\ calls' = Append(calls, Ext("Assistant", res))
    /\ IF res = "ok"
       THEN /\ assistant' = TRUE
            /\ log' = Append(log, Rec("info", "Assistant created successfully"))
            /\ pc' = "stt_primary"
            /\ UNCHANGED <<outcome, raised>>
       ELSE /\ Propagate(res, log)
            /\ UNCHANGED assistant
    /\ UNCHANGED <<env, stt, llm, tts, vad, session, ovars, avars, svars, tvars>>

\* STTPrimary whose handler does not try the fallback and goes on to the LLM.
STTPrimary_NoFallback(ok) ==
    /\ pc = "stt_primary"
    /\ calls' = Append(calls, Ctor("STT", "primary", ok))
    /\ IF ok
       THEN /\ stt' = Handle("STT", "primary")
            /\ log' = Append(log, Rec("info", "STT initialized"))
       ELSE UNCHANGED <<stt, log>>
    /\ pc' = "llm_primary"
    /\ UNCHANGED <<env, llm, tts, vad, assistant, session, outcome, raised, ovars, avars, svars, tvars>>

\* 163-172: groq.STT; a failure is not logged, the handler goes straight on.
STTPrimary(ok) ==
    /\ pc = "stt_primary"
    /\ calls' = Append(calls, Ctor("STT", "primary", ok))
    /\ IF ok
       THEN /\ stt' = Handle("STT", "primary")
            /\ log' = Append(log, Rec("info", "STT initialized"))
            /\ pc' = "llm_primary"
       ELSE /\ pc' = "stt_fallback"
            /\ UNCHANGED <<stt, log>>
    /\ UNCHANGED <<env, llm, tts, vad, assistant, session, outcome, raised, ovars, avars, svars, tvars>>

\* STTFallback whose failure goes back to the primary constructor.
STTFallback_RetriesPrimary(ok) ==
    /\ pc = "stt_fallback"
    /\ calls' = Append(calls, Ctor("STT", "fallback", ok))
    /\ IF ok
       THEN /\ stt' = Handle("STT", "fallback")
            /\ log' = Append(log, Rec("info", "STT initialized"))
            /\ pc' = "llm_primary"
       ELSE /\ log' = Append(log, Rec("error", "STT initialization failed"))
            /\ pc' = "stt_primary"
            /\ UNCHANGED stt
    /\ UNCHANGED <<env, llm, tts, vad, assistant, session, outcome, raised, ovars, avars, svars, tvars>>

\* 173-185: deepgram.STT, logged with the same line as the primary.
STTFallback(ok) ==
    /\ pc = "stt_fallback"
    /\ calls' = Append(calls, Ctor("STT", "fallback", ok))
    /\ IF ok
       THEN /\ stt' = Handle("STT", "fallback")
            /\ log' = Append(log, Rec("info", "STT initialized"))
            /\ pc' = "llm_primary"
            /\ UNCHANGED <<outcome, raised>>
       ELSE /\ log' = Append(log, Rec("error", "STT initialization failed"))
            /\ Return
            /\ UNCHANGED stt
    /\ UNCHANGED <<env, llm, tts, vad, assistant, session, ovars, avars, svars, tvars>>

\* LLMPrimary whose success path still runs into the fallback constructor.
LLMPrimary_FallsThrough(ok) ==
    /\ pc = "llm_primary"
    /\ calls' = Append(calls, Ctor("LLM", "primary", ok))
    /\ IF ok
       THEN /\ llm' = Handle("LLM", "primary")
            /\ log' = Append(log, Rec("info", "LLM initialized with Urdu-optimized model"))
            /\ pc' = "llm_fallback"
       ELSE /\ log' = Append(log, Rec("warning", "Urdu-optimized LLM failed, trying fallback"))
            /\ pc' = "llm_fallback"
            /\ UNCHANGED llm
    /\ UNCHANGED <<env, stt, tts, vad, assistant, session, outcome, raised, ovars, avars, svars, tvars>>

\* 189-193: groq.LLM with the Urdu-optimized model.
LLMPrimary(ok) ==
    /\ pc = "llm_primary"
    /\ calls' = Append(calls, Ctor("LLM", "primary", ok))
    /\ IF ok
       THEN /\ llm' = Handle("LLM", "primary")
            /\ log' = Append(log, Rec("info", "LLM initialized with Urdu-optimized model"))
            /\ pc' = "tts_primary"
       ELSE /\ log' = Append(log, Rec("warning", "Urdu-optimized LLM failed, trying fallback"))
            /\ pc' = "llm_fallback"
            /\ UNCHANGED llm
    /\ UNCHANGED <<env, stt, tts, vad, assistant, session, outcome, raised, ovars, avars, svars, tvars>>

\* 194-199: groq.LLM with the fallback model.
LLMFallback(ok) ==
    /\ pc = "llm_fallback"
    /\ calls' = Append(calls, Ctor("LLM", "fallback", ok))
    /\ IF ok
       THEN /\ llm' = Handle("LLM", "fallback")
            /\ log' = Append(log, Rec("info", "LLM initialized with fallback model"))
            /\ pc' = "tts_primary"
            /\ UNCHANGED <<outcome, raised>>
       ELSE /\ log' = Append(log, Rec("error", "LLM initialization failed completely"))
            /\ Return
            /\ UNCHANGED llm
    /\ UNCHANGED <<env, stt, tts, vad, assistant, session, ovars, avars, svars, tvars>>

\* 201-212: azure.TTS with the ur-PK voice.
TTSPrimary(ok) ==
    /\ pc = "tts_primary"
    /\ calls' = Append(calls, Ctor("TTS", "primary", ok))
    /\ IF ok
       THEN /\ tts' = Handle("TTS", "primary")
            /\ log' = Append(log, Rec("info", "TTS initialized with Hindi voice"))
            /\ pc' = "vad_primary"
       ELSE /\ log' = Append(log, Rec("error", "TTS initialization failed"))
            /\ pc' = "tts_fallback"
            /\ UNCHANGED tts
    /\ UNCHANGED <<env, stt, llm, vad, assistant, session, outcome, raised, ovars, avars, svars, tvars>>

\* TTSFallback that logs the failure but does not return.
TTSFallback_NoReturn(ok) ==
    /\ pc = "tts_fallback"
    /\ calls' = Append(calls, Ctor("TTS", "fallback", ok))
    /\ IF ok
       THEN /\ tts' = Handle("TTS", "fallback")
            /\ log' = Append(log, Rec("info", "TTS initialized with fallback English voice"))
       ELSE /\ log' = Append(log, Rec("error", "TTS fallback failed"))
            /\ UNCHANGED tts
    /\ pc' = "vad_primary"
    /\ UNCHANGED <<env, stt, llm, vad, assistant, session, outcome, raised, ovars, avars, svars, tvars>>

\* 213-224: azure.TTS with the en-US voice.
TTSFallback(ok) ==
    /\ pc = "tts_fallback"
    /\ calls' = Append(calls, Ctor("TTS", "fallback", ok))
    /\ IF ok
       THEN /\ tts' = Handle("TTS", "fallback")
            /\ log' = Append(log, Rec("info", "TTS initialized with fallback English voice"))
            /\ pc' = "vad_primary"
            /\ UNCHANGED <<outcome, raised>>
       ELSE /\ log' = Append(log, Rec("error", "TTS fallback failed"))
            /\ Return
            /\ UNCHANGED tts
    /\ UNCHANGED <<env, stt, llm, vad, assistant, session, ovars, avars, svars, tvars>>

\* 226-233: silero.VAD.load with tuned durations; a failure is not logged.
VADPrimary(ok) ==
    /\ pc = "vad_primary"
    /\ calls' = Append(calls, Ctor("VAD", "primary", ok))
    /\ IF ok
       THEN /\ vad' = Handle("VAD", "primary")
            /\ log' = Append(log, Rec("info", "VAD initialized with multilingual settings"))
            /\ pc' = "session"
       ELSE /\ pc' = "vad_fallback"
            /\ UNCHANGED <<vad, log>>
    /\ UNCHANGED <<env, stt, llm, tts, assistant, session, outcome, raised, ovars, avars, svars, tvars>>

\* VADFallback that logs the failure and goes on to build the session.
VADFallback_NoReturn(ok) ==
    /\ pc = "vad_fallback"
    /\ calls' = Append(calls, Ctor("VAD", "fallback", ok))
    /\ IF ok
       THEN /\ vad' = Handle("VAD", "fallback")
            /\ log' = Append(log, Rec("info", "VAD initialized with default settings"))
       ELSE /\ log' = Append(log, Rec("error", "VAD initialization failed completely"))
            /\ UNCHANGED vad
    /\ pc' = "session"
    /\ UNCHANGED <<env, stt, llm, tts, assistant, session, outcome, raised, ovars, avars, svars, tvars>>

\* 234-240: silero.VAD.load with the defaults.
VADFallback(ok) ==
    /\ pc = "vad_fallback"
    /\ calls' = Append(calls, Ctor("VAD", "fallback", ok))
    /\ IF ok
       THEN /\ vad' = Handle("VAD", "fallback")
            /\ log' = Append(log, Rec("info", "VAD initialized with default settings"))
            /\ pc' = "session"
            /\ UNCHANGED <<outcome, raised>>
       ELSE /\ log' = Append(log, Rec("error", "VAD initialization failed completely"))
            /\ Return
            /\ UNCHANGED vad
    /\ UNCHANGED <<env, stt, llm, tts, assistant, session, ovars, avars, svars, tvars>>

\* 242-250: AgentSession(stt=stt, llm=llm, tts=tts, vad=vad).
CreateSession(res) ==
    /\ pc = "session"
    /\ calls' = Append(calls, Ext("AgentSession", res))
    /\ IF res = "ok"
       THEN /\ session' = "created"
            /\ log' = Append(log, Rec("info", "Session created, starting..."))
            /\ pc' = "start"
            /\ UNCHANGED <<outcome, raised>>
       ELSE /\ Propagate(res, log)
            /\ UNCHANGED session
    /\ UNCHANGED <<env, stt, llm, tts, vad, assistant, ovars, avars, svars, tvars>>

\* 252-260: await session.start(...).
StartSession(res) ==
    /\ pc = "start"
    /\ calls' = Append(calls, Ext("session.start", res))
    /\ IF res = "ok"
       THEN /\ session' = "started"
            /\ log' = Append(log, Rec("info", "Session started successfully"))
            /\ pc' = "greeting"
            /\ UNCHANGED <<outcome, raised>>
       ELSE /\ Propagate(res, log)
            /\ UNCHANGED session
    /\ UNCHANGED <<env, stt, llm, tts, vad, assistant, ovars, avars, svars, tvars>>

\* Greeting without the TimeoutError handler: the timeout reaches the outer one.
Greeting_TimeoutUnhandled(res) ==
    /\ pc = "greeting"
    /\ calls' = Append(calls, Ext("session.generate_reply", res))
    /\ IF res = "ok"
       THEN /\ Return
            /\ UNCHANGED log
       ELSE Propagate(IF res = "TimeoutError" THEN "Exception" ELSE res, log)
    /\ UNCHANGED <<env, stt, llm, tts, vad, assistant, session, ovars, avars, svars, tvars>>

\* 263-271: await asyncio.wait_for(session.generate_reply(...), 30.0); only
\* the timeout is handled here, and the coroutine then runs off its end.
Greeting(res) ==
    /\ pc = "greeting"
    /\ calls' = Append(calls, Ext("session.generate_reply", res))
    /\ IF res = "ok"
       THEN /\ Return
            /\ UNCHANGED log
       ELSE IF res = "TimeoutError"
       THEN /\ log' = Append(log, Rec("warning", "Initial greeting generation timed out"))
            /\ Return
       ELSE Propagate(res, log)
    /\ UNCHANGED <<env, stt, llm, tts, vad, assistant, session, ovars, avars, svars, tvars>>

ENext ==
    \/ ValidateEnv
    \/ \E res \in {"ok", "Exception"} : CreateAssistant(res)
    \/ \E ok \in BOOLEAN : STTPrimary(ok)
    \/ \E ok \in BOOLEAN : STTFallback(ok)
    \/ \E ok \in BOOLEAN : LLMPrimary(ok)
    \/ \E ok \in BOOLEAN : LLMFallback(ok)
    \/ \E ok \in BOOLEAN : TTSPrimary(ok)
    \/ \E ok \in BOOLEAN : TTSFallback(ok)
    \/ \E ok \in BOOLEAN : VADPrimary(ok)
    \/ \E ok \in BOOLEAN : VADFallback(ok)
    \/ \E res \in {"ok", "Exception"} : CreateSession(res)
    \/ \E res \in AwaitOutcomes : StartSession(res)
    \/ \E res \in GreetingOutcomes : Greeting(res)

----------------------------------------------------------------------------
(* Text *)

\* Bounds of the model.
MaxTextLen == 2
MaxMsgLen == 2
MaxCalls == 2
MaxTurns == 2

\* The code point ranges of the two checks (72, 87-91).
DevanagariLo == 2304
DevanagariHi == 2431
ArabicLo == 1536
ArabicHi == 1791
ArabicSupplementLo == 1872
ArabicSupplementHi == 1919
ArabicExtendedALo == 2208
ArabicExtendedAHi == 2303
ArabicFormsALo == 64336
ArabicFormsAHi == 65023
ArabicFormsBLo == 65136
ArabicFormsBHi == 65279

\* message[:100] in the log line (119).
LogPrefixLen == 100

\* The code points str.isspace() is true of: what str.strip() removes.
PyWhitespace ==
    {9, 10, 11, 12, 13, 28, 29, 30, 31, 32, 133, 160, 5760} \cup (8192..8202)
        \cup {8232, 8233, 8239, 8287, 12288}

\* The code points texts are drawn from: a space, a Latin letter, and the
\* first and last code point of every range with their outer neighbours.
Alphabet ==
    {32, 65,
     1535, 1536, 1791, 1792,
     1871, 1872, 1919, 1920,
     2207, 2208, 2303, 2304, 2431, 2432,
     64335, 64336, 65023, 65024,
     65135, 65136, 65279, 65280}

\* A space, a Latin letter, an Arabic letter and a Devanagari letter.
MsgAlphabet == {32, 65, 1570, 2310}

SeqsUpTo(S, n) == UNION {[1..k -> S] : k \in 0..n}

\* A Python value passed as text: a str (its code points) or None.
Str(chars) == [kind |-> "str", chars |-> chars]
NoneValue == [kind |-> "NoneType", chars |-> <<>>]

Texts == {Str(c) : c \in SeqsUpTo(Alphabet, MaxTextLen)} \cup {NoneValue}
Messages == {Str(c) : c \in SeqsUpTo(MsgAlphabet, MaxMsgLen)} \cup {NoneValue}

\* `not x` of a str or None.
Falsy(v) == v.kind = "NoneType" \/ v.chars = <<>>

RECURSIVE LStrip(_)
LStrip(s) == IF s = <<>> THEN s
             ELSE IF Head(s) \in PyWhitespace THEN LStrip(Tail(s)) ELSE s
RECURSIVE RStrip(_)
RStrip(s) == IF s = <<>> THEN s
             ELSE IF s[Len(s)] \in PyWhitespace THEN RStrip(SubSeq(s, 1, Len(s) - 1)) ELSE s
\* str.strip()
Strip(s) == RStrip(LStrip(s))

\* s[:n]
Prefix(s, n) == SubSeq(s, 1, IF Len(s) < n THEN Len(s) ELSE n)

----------------------------------------------------------------------------
(* Assistant: the script checks *)

\* 62-63
AssistantInit ==
    /\ user_language_preference = "english"
    /\ conversation_history = <<>>

\* _is_hindi_input with an exclusive upper end of the range.
is_hindi_input_ExclusiveEnd(v) ==
    IF Falsy(v) \/ Strip(v.chars) = <<>>
    THEN FALSE
    ELSE \E i \in DOMAIN v.chars : DevanagariLo <= v.chars[i] /\ v.chars[i] < DevanagariHi

\* 65-77: Assistant._is_hindi_input
is_hindi_input(v) ==
    IF Falsy(v) \/ Strip(v.chars) = <<>>
    THEN FALSE
    ELSE \E i \in DOMAIN v.chars : DevanagariLo <= v.chars[i] /\ v.chars[i] <= DevanagariHi

\* 79-98: Assistant._is_urdu_script
is_urdu_script(v) ==
    IF Falsy(v) \/ Strip(v.chars) = <<>>
    THEN FALSE
    ELSE \E i \in DOMAIN v.chars :
            LET char == v.chars[i] IN
            \/ (ArabicLo <= char /\ char <= ArabicHi)
            \/ (ArabicSupplementLo <= char /\ char <= ArabicSupplementHi)
            \/ (ArabicExtendedALo <= char /\ char <= ArabicExtendedAHi)
            \/ (ArabicFormsALo <= char /\ char <= ArabicFormsAHi)
            \/ (ArabicFormsBLo <= char /\ char <= ArabicFormsBHi)

\* _should_respond_in_urdu that also answers yes to Arabic-script input.
should_respond_in_urdu_AnyScript(v) == is_hindi_input(v) \/ is_urdu_script(v)

\* 100-103: Assistant._should_respond_in_urdu
should_respond_in_urdu(v) == is_hindi_input(v)

ScriptCallsMade == Len(hindiResults) + Len(urduResults) + Len(decisions)

SInit ==
    /\ user_input \in Texts
    /\ hindiResults = <<>>
    /\ urduResults = <<>>
    /\ decisions = <<>>

Call_is_hindi_input ==
    /\ ScriptCallsMade < MaxCalls
    /\ hindiResults' = Append(hindiResults, is_hindi_input(user_input))
    /\ UNCHANGED <<user_input, urduResults, decisions, ovars, evars, avars, tvars>>

Call_is_urdu_script ==
    /\ ScriptCallsMade < MaxCalls
    /\ urduResults' = Append(urduResults, is_urdu_script(user_input))
    /\ UNCHANGED <<user_input, hindiResults, decisions, ovars, evars, avars, tvars>>

Call_should_respond_in_urdu ==
    /\ ScriptCallsMade < MaxCalls
    /\ decisions' = Append(decisions, should_respond_in_urdu(user_input))
    /\ UNCHANGED <<user_input, hindiResults, urduResults, ovars, evars, avars, tvars>>

SNext ==
    \/ Call_is_hindi_input
    \/ Call_is_urdu_script
    \/ Call_should_respond_in_urdu

----------------------------------------------------------------------------
(* Assistant.say *)

\* "I'm having trouble responding. Please try again." (125)
fallback_msg ==
    Str(<<73, 39, 109, 32, 104, 97, 118, 105, 110, 103, 32, 116, 114, 111, 117, 98,
          108, 101, 32, 114, 101, 115, 112, 111, 110, 100, 105, 110, 103, 46, 32, 80,
          108, 101, 97, 115, 101, 32, 116, 114, 121, 32, 97, 103, 97, 105, 110, 46>>)

\* A call of super().say as recorded in primCalls.
PrimCall(message, ai, ctx, res) ==
    [message |-> message, allow_interruptions |-> ai, add_to_chat_ctx |-> ctx, result |-> res]

\* What super().say returns for its n-th call in this call of say, and None.
Ack(n, message) == [some |-> TRUE, call |-> n, message |-> message]
NoReturn == [some |-> FALSE, call |-> 0, message |-> NoneValue]

NoArgs == [message |-> NoneValue, allow_interruptions |-> TRUE, add_to_chat_ctx |-> TRUE]

\* A logger record of say.
SayRec(level, msg, lang, text) == [level |-> level, msg |-> msg, lang |-> lang, text |-> text]

AInit ==
    /\ sayPc = "idle"
    /\ sayArgs = NoArgs
    /\ primCalls = <<>>
    /\ sayOutcome = "none"
    /\ sayReturn = NoReturn
    /\ sayRaised = "none"
    /\ sayLog = <<>>
    /\ turns = 0

\* say returns v to its caller.
SayReturns(v) ==
    /\ sayPc' = "idle"
    /\ sayOutcome' = "returned"
    /\ sayReturn' = v
    /\ sayRaised' = "none"
    /\ turns' = turns + 1

\* An exception leaves say.
SayRaises(exc) ==
    /\ sayPc' = "idle"
    /\ sayOutcome' = "raised"
    /\ sayReturn' = NoReturn
    /\ sayRaised' = exc
    /\ turns' = turns + 1

\* 105: the runtime calls say(message, allow_interruptions=, add_to_chat_ctx=).
SayEnter(message, ai, ctx) ==
    /\ sayPc = "idle"
    /\ turns < MaxTurns
    /\ sayPc' = "audit"
    /\ sayArgs' = [message |-> message, allow_interruptions |-> ai, add_to_chat_ctx |-> ctx]
    /\ primCalls' = <<>>
    /\ sayOutcome' = "running"
    /\ sayReturn' = NoReturn
    /\ sayRaised' = "none"
    /\ sayLog' = <<>>
    /\ UNCHANGED <<turns, ovars, evars, svars, tvars>>

\* SayAudit that refuses a message with Devanagari in it and goes to the
\* handler instead of the call.
SayAudit_BlocksDevanagari ==
    /\ sayPc = "audit"
    /\ LET message == sayArgs.message
           is_hindi == is_hindi_input(message)
           is_urdu_response == is_urdu_script(message)
           lang_indicator == IF is_urdu_response THEN "Urdu"
                             ELSE IF is_hindi THEN "English (from Hindi input)"
                             ELSE "English"
       IN IF message.kind = "NoneType" \/ is_hindi
          THEN /\ sayPc' = "except"
               /\ UNCHANGED sayLog
          ELSE /\ sayLog' = Append(sayLog, SayRec("info", "Assistant responding in",
                                   lang_indicator, Prefix(message.chars, LogPrefixLen)))
               /\ sayPc' = "call"
    /\ UNCHANGED <<sayArgs, primCalls, sayOutcome, sayReturn, sayRaised, turns, ovars, evars, svars, tvars>>

\* SayAudit that tests the Devanagari check before the Arabic-script one.
SayAudit_DevanagariFirst ==
    /\ sayPc = "audit"
    /\ LET message == sayArgs.message
           is_hindi == is_hindi_input(message)
           is_urdu_response == is_urdu_script(message)
           lang_indicator == IF is_hindi THEN "English (from Hindi input)"
                             ELSE IF is_urdu_response THEN "Urdu"
                             ELSE "English"
       IN IF message.kind = "NoneType"
          THEN /\ sayPc' = "except"
               /\ UNCHANGED sayLog
          ELSE /\ sayLog' = Append(sayLog, SayRec("info", "Assistant responding in",
                                   lang_indicator, Prefix(message.chars, LogPrefixLen)))
               /\ sayPc' = "call"
    /\ UNCHANGED <<sayArgs, primCalls, sayOutcome, sayReturn, sayRaised, turns, ovars, evars, svars, tvars>>

\* 108-119: the two checks, lang_indicator and the log line. message[:100]
\* raises TypeError for None, inside the try.
SayAudit ==
    /\ sayPc = "audit"
    /\ LET message == sayArgs.message
           is_hindi == is_hindi_input(message)
           is_urdu_response == is_urdu_script(message)
           lang_indicator == IF is_urdu_response THEN "Urdu"
                             ELSE IF is_hindi THEN "English (from Hindi input)"
                             ELSE "English"
       IN IF message.kind = "NoneType"
          THEN /\ sayPc' = "except"
               /\ UNCHANGED sayLog
          ELSE /\ sayLog' = Append(sayLog, SayRec("info", "Assistant responding in",
                                   lang_indicator, Prefix(message.chars, LogPrefixLen)))
               /\ sayPc' = "call"
    /\ UNCHANGED <<sayArgs, primCalls, sayOutcome, sayReturn, sayRaised, turns, ovars, evars, svars, tvars>>

\* SayPrimary that records the language of the message on the agent.
SayPrimary_RemembersLanguage(res) ==
    /\ sayPc = "call"
    /\ primCalls' = Append(primCalls, PrimCall(sayArgs.message, sayArgs.allow_interruptions,
                                               sayArgs.add_to_chat_ctx, res))
    /\ IF res = "ok"
       THEN SayReturns(Ack(Len(primCalls) + 1, sayArgs.message))
       ELSE IF res = "Exception"
       THEN /\ sayPc' = "except"
            /\ UNCHANGED <<sayOutcome, sayReturn, sayRaised, turns>>
       ELSE SayRaises(res)
    /\ user_language_preference' =
          IF is_urdu_script(sayArgs.message) THEN "urdu" ELSE user_language_preference
    /\ conversation_history' = Append(conversation_history, sayArgs.message)
    /\ UNCHANGED <<sayArgs, sayLog, evars, svars, tvars>>

\* SayPrimary with `except BaseException`: a CancelledError goes to the
\* handler as well.
SayPrimary_CatchesAll(res) ==
    /\ sayPc = "call"
    /\ primCalls' = Append(primCalls, PrimCall(sayArgs.message, sayArgs.allow_interruptions,
                                               sayArgs.add_to_chat_ctx, res))
    /\ IF res = "ok"
       THEN SayReturns(Ack(Len(primCalls) + 1, sayArgs.message))
       ELSE /\ sayPc' = "except"
            /\ UNCHANGED <<sayOutcome, sayReturn, sayRaised, turns>>
    /\ UNCHANGED <<sayArgs, sayLog, ovars, evars, svars, tvars>>

\* 121-122: return await super().say(message, ...); `except Exception` takes
\* an Exception to the handler and lets a CancelledError through.
SayPrimary(res) ==
    /\ sayPc = "call"
    /\ primCalls' = Append(primCalls, PrimCall(sayArgs.message, sayArgs.allow_interruptions,
                                               sayArgs.add_to_chat_ctx, res))
    /\ IF res = "ok"
       THEN SayReturns(Ack(Len(primCalls) + 1, sayArgs.message))
       ELSE IF res = "Exception"
       THEN /\ sayPc' = "except"
            /\ UNCHANGED <<sayOutcome, sayReturn, sayRaised, turns>>
       ELSE SayRaises(res)
    /\ UNCHANGED <<sayArgs, sayLog, ovars, evars, svars, tvars>>

\* SayFallback without the inner try: whatever the fallback call raises
\* leaves say.
SayFallback_Unguarded(res) ==
    /\ sayPc = "except"
    /\ sayLog' = Append(sayLog, SayRec("error", "Error in say method", "-", <<>>))
    /\ primCalls' = Append(primCalls, PrimCall(fallback_msg, sayArgs.allow_interruptions,
                                               sayArgs.add_to_chat_ctx, res))
    /\ IF res = "ok"
       THEN SayReturns(Ack(Len(primCalls) + 1, fallback_msg))
       ELSE SayRaises(res)
    /\ UNCHANGED <<sayArgs, ovars, evars, svars, tvars>>

\* SayFallback that awaits the fallback call without returning its value.
SayFallback_DropsAck(res) ==
    /\ sayPc = "except"
    /\ sayLog' = Append(sayLog, SayRec("error", "Error in say method", "-", <<>>))
    /\ primCalls' = Append(primCalls, PrimCall(fallback_msg, sayArgs.allow_interruptions,
                                               sayArgs.add_to_chat_ctx, res))
    /\ SayReturns(NoReturn)
    /\ UNCHANGED <<sayArgs, ovars, evars, svars, tvars>>

\* SayFallback that calls super().say(fallback_msg) with the default flags.
SayFallback_DefaultFlags(res) ==
    /\ sayPc = "except"
    /\ sayLog' = Append(sayLog, SayRec("error", "Error in say method", "-", <<>>))
    /\ primCalls' = Append(primCalls, PrimCall(fallback_msg, TRUE, TRUE, res))
    /\ IF res = "ok"
       THEN SayReturns(Ack(Len(primCalls) + 1, fallback_msg))
       ELSE SayReturns(NoReturn)
    /\ UNCHANGED <<sayArgs, ovars, evars, svars, tvars>>

\* 123-130: the handler logs, calls super().say(fallback_msg, ...) with the
\* caller's flags and returns its value; the bare `except: pass` swallows
\* whatever that call raises, and say then returns None.
SayFallback(res) ==
    /\ sayPc = "except"
    /\ sayLog' = Append(sayLog, SayRec("error", "Error in say method", "-", <<>>))
    /\ primCalls' = Append(primCalls, PrimCall(fallback_msg, sayArgs.allow_interruptions,
                                               sayArgs.add_to_chat_ctx, res))
    /\ IF res = "ok"
       THEN SayReturns(Ack(Len(primCalls) + 1, fallback_msg))
       ELSE SayReturns(NoReturn)
    /\ UNCHANGED <<sayArgs, ovars, evars, svars, tvars>>

ANext ==
    \/ \E message \in Messages, ai \in BOOLEAN, ctx \in BOOLEAN : SayEnter(message, ai, ctx)
    \/ SayAudit
    \/ \E res \in AwaitOutcomes : SayPrimary(res)
    \/ \E res \in AwaitOutcomes : SayFallback(res)

----------------------------------------------------------------------------
(* A conversational turn *)

\* The session of lines 242-250 runs each turn with the Assistant handed to
\* it at 253-255.  What this file contributes to a turn is the Assistant:
\* the instruction text fixed at construction (25-60) and the methods the
\* class defines.  The class defines no method the session calls on the
\* user's text, and no line of the file calls _should_respond_in_urdu, so
\* between the transcript and the request to the language model none of
\* this file's code runs.

\* The text a user's speech is transcribed to.
Transcripts == Messages \ {NoneValue}

\* 25-60: the instruction text, the same for every turn
Instructions == "instructions"

NoAnnotation == "none"
NoPrompt == [instructions |-> "none", annotation |-> NoAnnotation]

TInit ==
    /\ turnStage = "Idle"
    /\ transcript = NoneValue
    /\ stageTrace = <<>>
    /\ prompt = NoPrompt
    /\ turnsHeld = 0

TurnListen ==
    /\ turnStage = "Idle"
    /\ turnsHeld < MaxTurns
    /\ turnStage' = "Listening"
    /\ stageTrace' = <<"Listening">>
    /\ transcript' = NoneValue
    /\ prompt' = NoPrompt
    /\ UNCHANGED <<turnsHeld, evars, ovars, avars, svars>>

\* the session's speech-to-text (stt of 245) delivers the user's words
TurnTranscribe(text) ==
    /\ turnStage = "Listening"
    /\ turnStage' = "Transcribed"
    /\ transcript' = text
    /\ stageTrace' = Append(stageTrace, "Transcribed")
    /\ UNCHANGED <<prompt, turnsHeld, evars, ovars, avars, svars>>

\* the session asks the language model (llm of 246) with the Assistant's
\* instructions; the Assistant attaches nothing to them
TurnGenerate ==
    /\ turnStage = "Transcribed"
    /\ turnStage' = "Generating"
    /\ prompt' = [instructions |-> Instructions, annotation |-> NoAnnotation]
    /\ stageTrace' = Append(stageTrace, "Generating")
    /\ UNCHANGED <<transcript, turnsHeld, evars, ovars, avars, svars>>

\* the session speaks the reply (tts of 247)
TurnSpeak ==
    /\ turnStage = "Generating"
    /\ turnStage' = "Speaking"
    /\ stageTrace' = Append(stageTrace, "Speaking")
    /\ UNCHANGED <<transcript, prompt, turnsHeld, evars, ovars, avars, svars>>

TurnEnd ==
    /\ turnStage = "Speaking"
    /\ turnStage' = "Idle"
    /\ turnsHeld' = turnsHeld + 1
    /\ UNCHANGED <<transcript, stageTrace, prompt, evars, ovars, avars, svars>>

TNext ==
    \/ TurnListen
    \/ \E text \in Transcripts : TurnTranscribe(text)
    \/ TurnGenerate
    \/ TurnSpeak
    \/ TurnEnd

----------------------------------------------------------------------------
(* Specifications *)

\* The entrypoint variables while entrypoint is not the subject: a worker
\* whose credentials are set and whose job has not begun.
EIdle ==
    /\ EInit
    /\ \A k \in DOMAIN env : env[k] = "key"

\* The script-call variables while no script function is being exercised.
SIdle ==
    /\ user_input = NoneValue
    /\ hindiResults = <<>>
    /\ urduResults = <<>>
    /\ decisions = <<>>

\* entrypoint
Init == EInit /\ AssistantInit /\ AInit /\ SIdle /\ TInit

Next == ENext

Spec == Init /\ [][Next]_vars

\* entrypoint, scheduled until it ends: every external call returns or
\* raises, and the event loop then resumes the coroutine.
SpecFair == Init /\ [][Next]_vars /\ WF_vars(Next)

\* Assistant.say, called turn after turn
SayInit == EIdle /\ AssistantInit /\ AInit /\ SIdle /\ TInit

SayNext == ANext

SpecSay == SayInit /\ [][SayNext]_vars

\* the script functions, called on one text
ScriptInit == EIdle /\ AssistantInit /\ AInit /\ SInit /\ TInit

\* the turns of a started session
TurnInit == EIdle /\ AssistantInit /\ AInit /\ SIdle /\ TInit

TurnNext == TNext

SpecTurn == TurnInit /\ [][TurnNext]_vars

ScriptNext == SNext

SpecScript == ScriptInit /\ [][ScriptNext]_vars

----------------------------------------------------------------------------
(* Reading the run's history *)

\* The handle bound to a slot.
HandleOf(slot) ==
    CASE slot = "STT" -> stt
      [] slot = "LLM" -> llm
      [] slot = "TTS" -> tts
      [] slot = "VAD" -> vad

IsCtor(c) == c.op = "construct"
CtorsOf(slot) == SelectSeq(calls, LAMBDA c : IsCtor(c) /\ c.slot = slot)
CallsTo(op) == SelectSeq(calls, LAMBDA c : c.op = op)
SlotIndex(slot) == CHOOSE i \in 1..4 : Slots[i] = slot
Exhausted(slot) ==
    /\ Len(CtorsOf(slot)) = 2
    /\ \A i \in 1..2 : CtorsOf(slot)[i].result = "Exception"
AllPresent == \A k \in DOMAIN env : env[k] \notin {Unset, ""}
LastLog == log[Len(log)]
LastCall == calls[Len(calls)]

----------------------------------------------------------------------------
(* Claims about entrypoint *)

\* C1: for every slot with at least one successful constructor attempt, the
\* attempts were made in the declared order (primary, then fallback), the
\* handle bound to the slot is the one of the first successful attempt, and
\* that attempt is the last one made for the slot.
C1_FirstSuccessWins ==
    \A slot \in SlotSet :
        LET cs == CtorsOf(slot) IN
        /\ Len(cs) <= 2
        /\ Len(cs) >= 1 => cs[1].attempt = "primary"
        /\ Len(cs) = 2 => cs[2].attempt = "fallback"
        /\ (\E i \in 1..Len(cs) : cs[i].result = "ok") =>
              LET first == CHOOSE i \in 1..Len(cs) :
                              /\ cs[i].result = "ok"
                              /\ \A j \in 1..(i - 1) : cs[j].result # "ok"
              IN /\ HandleOf(slot).slot = slot
                 /\ HandleOf(slot).attempt = cs[first].attempt
                 /\ HandleOf(slot).config = cs[first].config
                 /\ first = Len(cs)
        /\ (\A i \in 1..Len(cs) : cs[i].result # "ok") => HandleOf(slot) = Unbound

\* C1 witness: the run is over, STT was bound by its primary and LLM by its
\* fallback after the LLM primary failed, and the later slots were attempted.
C1_Witness ==
    /\ pc = "done"
    /\ stt.attempt = "primary"
    /\ llm.attempt = "fallback"
    /\ Len(CtorsOf("LLM")) = 2
    /\ Len(CtorsOf("VAD")) >= 1

\* C2: whenever the session has been constructed or started, or AgentSession
\* has been called at all, each of the four slots is bound to the handle of
\* a constructor attempt of that slot that succeeded.
C2_NoPartialSession ==
    (session # "none" \/ Len(CallsTo("AgentSession")) > 0 \/ Len(CallsTo("session.start")) > 0) =>
        \A slot \in SlotSet :
            /\ HandleOf(slot) # Unbound
            /\ \E i \in 1..Len(calls) :
                  /\ IsCtor(calls[i])
                  /\ calls[i].result = "ok"
                  /\ calls[i].slot = slot
                  /\ calls[i].config = HandleOf(slot).config

\* C2 witness: a started session, with the VAD bound by its fallback.
C2_Witness ==
    /\ session = "started"
    /\ vad.attempt = "fallback"

\* The error line entrypoint writes when a slot is exhausted (184, 198, 223, 239).
FatalMsg(slot) ==
    CASE slot = "STT" -> "STT initialization failed"
      [] slot = "LLM" -> "LLM initialization failed completely"
      [] slot = "TTS" -> "TTS fallback failed"
      [] slot = "VAD" -> "VAD initialization failed completely"

\* C3: if both attempts of a slot failed, the run has ended by a return, the
\* last log record is that slot's error line, no constructor of a later slot
\* was called, and no session was constructed or started.
C3_ExhaustedSlotAborts ==
    \A slot \in SlotSet :
        Exhausted(slot) =>
            /\ pc = "done" /\ outcome = "returned"
            /\ LastLog = Rec("error", FatalMsg(slot))
            /\ \A i \in 1..Len(calls) :
                  IsCtor(calls[i]) => SlotIndex(calls[i].slot) <= SlotIndex(slot)
            /\ LastCall = Ctor(slot, "fallback", FALSE)
            /\ session = "none"
            /\ Len(CallsTo("AgentSession")) = 0
            /\ Len(CallsTo("session.start")) = 0

\* C3 witness: all credentials present, STT and LLM bound, TTS exhausted.
C3_Witness ==
    /\ AllPresent
    /\ stt # Unbound /\ llm # Unbound
    /\ Exhausted("TTS")

\* C4: if any of the four credential values is absent (unset or empty), the
\* run never leaves the credential checks except by ending: no external call
\* of any kind is made, no slot is bound and no session exists.
C4_MissingCredentialStops ==
    ~AllPresent =>
        /\ pc \in {"validate", "done"}
        /\ calls = <<>>
        /\ \A slot \in SlotSet : HandleOf(slot) = Unbound
        /\ session = "none"
        /\ pc = "done" => outcome = "returned"

\* C4 witness: only the speech-recognition key is absent and the run is over.
C4_Witness ==
    /\ env["DEEPGRAM_API_KEY"] = Unset
    /\ \A k \in DOMAIN env \ {"DEEPGRAM_API_KEY"} : env[k] = "key"
    /\ pc = "done"

\* The log lines about each slot, and the line of a primary success (171,
\* 191, 210, 232).
SlotMsgs(slot) ==
    CASE slot = "STT" -> {"STT initialized", "STT initialization failed"}
      [] slot = "LLM" -> {"LLM initialized with Urdu-optimized model",
                          "Urdu-optimized LLM failed, trying fallback",
                          "LLM initialized with fallback model",
                          "LLM initialization failed completely"}
      [] slot = "TTS" -> {"TTS initialized with Hindi voice", "TTS initialization failed",
                          "TTS initialized with fallback English voice", "TTS fallback failed"}
      [] slot = "VAD" -> {"VAD initialized with multilingual settings",
                          "VAD initialized with default settings",
                          "VAD initialization failed completely"}
PrimarySuccessMsg(slot) ==
    CASE slot = "STT" -> "STT initialized"
      [] slot = "LLM" -> "LLM initialized with Urdu-optimized model"
      [] slot = "TTS" -> "TTS initialized with Hindi voice"
      [] slot = "VAD" -> "VAD initialized with multilingual settings"
SlotLogs(slot) == SelectSeq(log, LAMBDA r : r.msg \in SlotMsgs(slot))

\* C9: every constructor attempt of every slot has exactly one log record,
\* in attempt order, an info record for a success and a warning or error
\* record for a failure, and the record of a fallback success is not the
\* line a primary success writes.
C9_OneLogLinePerAttempt ==
    \A slot \in SlotSet :
        LET cs == CtorsOf(slot)
            ls == SlotLogs(slot)
        IN /\ Len(ls) = Len(cs)
           /\ \A i \in 1..Len(cs) :
                 /\ cs[i].result = "ok" <=> ls[i].level = "info"
                 /\ cs[i].result # "ok" <=> ls[i].level \in {"warning", "error"}
                 /\ (cs[i].result = "ok" /\ cs[i].attempt = "fallback") =>
                        ls[i].msg # PrimarySuccessMsg(slot)

\* C10: generate_reply is called at most once, and only after session.start
\* returned; when it timed out, the last log record is the timeout warning,
\* the run has ended by a normal return with no exception, and the session
\* is still started.
C10_GreetingOnceTimeoutNonFatal ==
    /\ Len(CallsTo("session.generate_reply")) <= 1
    /\ \A i \in 1..Len(calls) :
          calls[i].op = "session.generate_reply" =>
              \E j \in 1..(i - 1) : calls[j] = Ext("session.start", "ok")
    /\ (Len(calls) > 0 /\ LastCall = Ext("session.generate_reply", "TimeoutError")) =>
          /\ LastLog = Rec("warning", "Initial greeting generation timed out")
          /\ pc = "done" /\ outcome = "returned" /\ raised = "none"
          /\ session = "started"

\* C10 witness: the greeting has timed out.
C10_Witness ==
    /\ Len(calls) > 0
    /\ LastCall = Ext("session.generate_reply", "TimeoutError")

----------------------------------------------------------------------------
(* Claims about Assistant.say *)

\* The call of say that was entered last has ended.
SayEnded == sayPc = "idle" /\ sayOutcome \in {"returned", "raised"}

\* C5, as claimed: no call of say ever ends with an exception leaving it.
C5_SayNeverRaises == sayOutcome # "raised"

\* C5, amended: an exception leaves say only as a CancelledError (a
\* BaseException that is not an Exception) raised by the call of super().say
\* on the original message; once the handler is entered, whatever the call
\* on the fallback phrase raises, say returns normally, and it returns None
\* when that call raised.
C5_OnlyFirstCallCancellationLeaves ==
    /\ sayOutcome = "raised" =>
          /\ sayRaised = "CancelledError"
          /\ Len(primCalls) = 1
          /\ primCalls[1] = PrimCall(sayArgs.message, sayArgs.allow_interruptions,
                                     sayArgs.add_to_chat_ctx, "CancelledError")
    /\ (SayEnded /\ Len(primCalls) >= 1 /\ primCalls[1].result = "Exception") =>
          sayOutcome = "returned"
    /\ (SayEnded /\ \E i \in 1..Len(primCalls) :
                       primCalls[i].message = fallback_msg /\ primCalls[i].result # "ok") =>
          sayOutcome = "returned" /\ sayReturn = NoReturn

\* C5 witness: the call on the original message raised an Exception, the
\* call on the fallback phrase raised too, and say has returned.
C5_Witness ==
    /\ SayEnded
    /\ Len(primCalls) = 2
    /\ primCalls[1].message = sayArgs.message
    /\ primCalls[1].result = "Exception"
    /\ primCalls[2].message = fallback_msg
    /\ primCalls[2].result = "Exception"
    /\ sayOutcome = "returned"

\* C6: when the call of super().say on the original message succeeded, say
\* returns that call's acknowledgement; when it did not and the call on the
\* fallback phrase succeeded, say returns the fallback call's acknowledgement.
C6_ReturnsAcknowledgement ==
    SayEnded =>
        /\ (Len(primCalls) >= 1 /\ primCalls[1].message = sayArgs.message
              /\ primCalls[1].result = "ok") =>
              /\ sayOutcome = "returned"
              /\ sayReturn = Ack(1, sayArgs.message)
              /\ Len(primCalls) = 1
        /\ (Len(primCalls) = 2 /\ primCalls[1].message = sayArgs.message
              /\ primCalls[1].result # "ok"
              /\ primCalls[2].message = fallback_msg /\ primCalls[2].result = "ok") =>
              /\ sayOutcome = "returned"
              /\ sayReturn = Ack(2, fallback_msg)

\* C6 witness: the original message failed, the fallback phrase was spoken.
C6_Witness ==
    /\ SayEnded
    /\ Len(primCalls) = 2
    /\ primCalls[1].message = sayArgs.message
    /\ primCalls[1].result = "Exception"
    /\ primCalls[2].result = "ok"
    /\ sayReturn.some

----------------------------------------------------------------------------
(* Claims about the script functions *)

DevanagariBlock == 2304..2431
ArabicBlocks ==
    (1536..1791) \cup (1872..1919) \cup (2208..2303) \cup (64336..65023) \cup (65136..65279)
CodePoints(v) == {v.chars[i] : i \in DOMAIN v.chars}
Blank(v) == CodePoints(v) \subseteq PyWhitespace

\* C7: on empty or whitespace-only text both checks are false; on text with
\* a Devanagari code point the Devanagari check is true; on text with no
\* Devanagari code point it is false, and the Arabic-script check is true
\* when the text has a code point of one of the five Arabic ranges; on text
\* with code points in none of the ranges both checks are false.
C7_ClassificationByPresence ==
    LET cps == CodePoints(user_input) IN
    /\ \A i \in DOMAIN hindiResults :
          /\ Blank(user_input) => hindiResults[i] = FALSE
          /\ cps \cap DevanagariBlock # {} => hindiResults[i] = TRUE
          /\ cps \cap DevanagariBlock = {} => hindiResults[i] = FALSE
    /\ \A i \in DOMAIN urduResults :
          /\ Blank(user_input) => urduResults[i] = FALSE
          /\ (cps \cap DevanagariBlock = {} /\ cps \cap ArabicBlocks # {}) =>
                urduResults[i] = TRUE
          /\ cps \cap (DevanagariBlock \cup ArabicBlocks) = {} => urduResults[i] = FALSE

\* C7 witness: a Latin letter followed by the last Devanagari code point,
\* checked by both functions.
C7_Witness ==
    /\ user_input = Str(<<65, 2431>>)
    /\ Len(hindiResults) = 1 /\ hindiResults[1] = TRUE
    /\ Len(urduResults) = 1 /\ urduResults[1] = FALSE

\* C8: every decision of _should_respond_in_urdu is TRUE exactly when the
\* text has a Devanagari code point (so FALSE for Latin, Arabic-script and
\* empty text), repeated calls on the same text agree, and the agent's
\* language preference and history are as constructed.
C8_DecisionIsDevanagariPresence ==
    /\ \A i \in DOMAIN decisions :
          decisions[i] = (CodePoints(user_input) \cap DevanagariBlock # {})
    /\ \A i, j \in DOMAIN decisions : decisions[i] = decisions[j]
    /\ user_language_preference = "english"
    /\ conversation_history = <<>>

\* C8 witness: two calls on a text with a Latin letter and a Devanagari
\* code point, both deciding Urdu script.
C8_Witness ==
    /\ user_input = Str(<<65, 2304>>)
    /\ decisions = <<TRUE, TRUE>>

\* The other side is reached as well: two calls on an Arabic-script text,
\* both deciding Latin.
C8_ArabicTextDecidesLatin ==
    /\ user_input = Str(<<1536, 65>>)
    /\ decisions = <<FALSE, FALSE>>

----------------------------------------------------------------------------
(* More claims about Assistant.say *)

SameFlags(c) ==
    /\ c.allow_interruptions = sayArgs.allow_interruptions
    /\ c.add_to_chat_ctx = sayArgs.add_to_chat_ctx

\* C11: one call of say calls super().say at most twice; the original
\* message is passed at most once and only by the first call, which a text
\* message always gets; a second call is made only after the first one, on
\* the original message, did not succeed, and it passes the fallback phrase
\* with the caller's two flags; an Exception of the first call is followed
\* by exactly one fallback call, and after the fallback call say has ended,
\* whatever that call did.
C11_AtMostTwoCalls ==
    /\ Len(primCalls) <= 2
    /\ \A i \in 1..Len(primCalls) :
          /\ primCalls[i].message \in {sayArgs.message, fallback_msg}
          /\ primCalls[i].message = sayArgs.message => i = 1
          /\ primCalls[i].message = fallback_msg => SameFlags(primCalls[i]) /\ SayEnded
    /\ (sayArgs.message.kind = "str" /\ Len(primCalls) >= 1) =>
          primCalls[1].message = sayArgs.message
    /\ Len(primCalls) = 2 =>
          /\ primCalls[1].message = sayArgs.message
          /\ primCalls[1].result = "Exception"
          /\ primCalls[2].message = fallback_msg
    /\ (SayEnded /\ Len(primCalls) >= 1 /\ primCalls[1].message = sayArgs.message
          /\ primCalls[1].result = "Exception") => Len(primCalls) = 2

\* C11 witness: both calls were made with allow_interruptions off and
\* add_to_chat_ctx on, the second failed too, and say has ended.
C11_Witness ==
    /\ SayEnded
    /\ Len(primCalls) = 2
    /\ primCalls[2].result = "Exception"
    /\ ~sayArgs.allow_interruptions /\ sayArgs.add_to_chat_ctx

\* C12: for a text message of any script, the audit always leads to the
\* call of super().say, the first call gets exactly the caller's message and
\* flags, and all the checks leave behind is the one log record carrying the
\* message's first characters.
C12_FirstCallGetsOriginal ==
    sayArgs.message.kind = "str" =>
        /\ Len(primCalls) >= 1 =>
              /\ primCalls[1].message = sayArgs.message
              /\ SameFlags(primCalls[1])
        /\ (sayOutcome # "none" /\ sayPc # "audit") =>
              (sayPc = "call" \/ Len(primCalls) >= 1)
        /\ (sayOutcome # "none" /\ sayPc # "audit") =>
              /\ Len(sayLog) >= 1
              /\ sayLog[1].level = "info"
              /\ sayLog[1].text = Prefix(sayArgs.message.chars, LogPrefixLen)

\* C12 witness: a message with a Devanagari and an Arabic code point was
\* passed on unchanged, with add_to_chat_ctx off.
C12_Witness ==
    /\ sayArgs.message = Str(<<2310, 1570>>)
    /\ ~sayArgs.add_to_chat_ctx
    /\ Len(primCalls) = 1
    /\ primCalls[1].message = Str(<<2310, 1570>>)
    /\ primCalls[1].result = "ok"

----------------------------------------------------------------------------
(* More claims about entrypoint *)

\* The slot whose constructor entrypoint is about to call, "-" if none.
SlotAtPc ==
    CASE pc \in {"stt_primary", "stt_fallback"} -> "STT"
      [] pc \in {"llm_primary", "llm_fallback"} -> "LLM"
      [] pc \in {"tts_primary", "tts_fallback"} -> "TTS"
      [] pc \in {"vad_primary", "vad_fallback"} -> "VAD"
      [] OTHER -> "-"

BoundBefore(slot, i) ==
    \E j \in 1..(i - 1) : IsCtor(calls[j]) /\ calls[j].slot = slot /\ calls[j].result = "ok"

\* C13: constructor calls come in the slot order STT, LLM, TTS, VAD; a
\* constructor of a slot is called, or about to be called, only when every
\* earlier slot has been bound by a successful call and no later slot has
\* been touched; and every call uses the configuration fixed for its slot
\* and attempt, whatever attempt bound the other slots.
C13_SequentialSlots ==
    /\ \A i \in 1..Len(calls) : IsCtor(calls[i]) =>
          /\ \A j \in 1..(i - 1) : IsCtor(calls[j]) =>
                /\ SlotIndex(calls[j].slot) <= SlotIndex(calls[i].slot)
                /\ calls[j].slot = calls[i].slot => calls[j].result = "Exception"
          /\ \A s \in SlotSet : SlotIndex(s) < SlotIndex(calls[i].slot) =>
                BoundBefore(s, i) /\ HandleOf(s) # Unbound
          /\ calls[i].config = Config(calls[i].slot, calls[i].attempt)
    /\ SlotAtPc # "-" =>
          \A s \in SlotSet :
              /\ SlotIndex(s) < SlotIndex(SlotAtPc) => HandleOf(s) # Unbound
              /\ SlotIndex(s) > SlotIndex(SlotAtPc) => CtorsOf(s) = <<>> /\ HandleOf(s) = Unbound
              /\ s = SlotAtPc => HandleOf(s) = Unbound

\* C13 witness: the VAD fallback is about to be called after STT was bound
\* by its fallback, LLM by its primary and TTS by its fallback.
C13_Witness ==
    /\ pc = "vad_fallback"
    /\ stt.attempt = "fallback" /\ llm.attempt = "primary" /\ tts.attempt = "fallback"
    /\ CtorsOf("VAD") = <<Ctor("VAD", "primary", FALSE)>>

\* The three credential groups in the order they are tested, whether a
\* group is absent, and the error line of each (148, 152, 156).
Groups == <<"speech-service", "language-model", "speech-recognition">>
Absent(v) == v \in {Unset, ""}
GroupAbsent(g) ==
    CASE g = "speech-service"     -> Absent(env["AZURE_SPEECH_KEY"]) \/ Absent(env["AZURE_SPEECH_REGION"])
      [] g = "language-model"     -> Absent(env["GROQ_API_KEY"])
      [] g = "speech-recognition" -> Absent(env["DEEPGRAM_API_KEY"])
GroupMsg(g) ==
    CASE g = "speech-service"     -> "Azure Speech credentials not found in environment variables"
      [] g = "language-model"     -> "Groq API key not found in environment variables"
      [] g = "speech-recognition" -> "Deepgram API key not found in environment variables"
Reported(g) == \E i \in 1..Len(log) : log[i] = Rec("error", GroupMsg(g))

\* C14, as claimed: once the run is over, every absent credential group has
\* its own error line in the log.
C14_EveryAbsentGroupReported ==
    pc = "done" => \A i \in 1..3 : GroupAbsent(Groups[i]) => Reported(Groups[i])

\* C14, amended: once the run is over with some group absent, the log holds
\* the start line and exactly one error line, the one of the first absent
\* group in the order speech-service, language-model, speech-recognition;
\* no later absent group is reported, and no line covers several groups.
C14_FirstAbsentGroupReported ==
    (pc = "done" /\ \E i \in 1..3 : GroupAbsent(Groups[i])) =>
        LET first == CHOOSE i \in 1..3 :
                        GroupAbsent(Groups[i]) /\ \A j \in 1..(i - 1) : ~GroupAbsent(Groups[j])
        IN /\ log = <<Rec("info", "Starting agent initialization..."),
                      Rec("error", GroupMsg(Groups[first]))>>
           /\ \A i \in 1..3 : Reported(Groups[i]) <=> i = first
           /\ outcome = "returned"

\* C14 witness: the language-model key and the speech-recognition key are
\* both absent, the speech-service pair is set, and the run is over.
C14_Witness ==
    /\ pc = "done"
    /\ ~GroupAbsent("speech-service")
    /\ GroupAbsent("language-model")
    /\ GroupAbsent("speech-recognition")

EntrypointErrorLogged == \E i \in 1..Len(log) : log[i] = Rec("error", "Entrypoint error")
\* The last external call was no constructor and raised something other
\* than the greeting timeout.
UnexpectedRaise ==
    /\ Len(calls) > 0
    /\ ~IsCtor(LastCall)
    /\ LastCall.result \in {"Exception", "CancelledError"}

\* C15, as claimed: whatever leaves entrypoint as an exception has been
\* logged by the outer handler, and the aborts return without raising.
C15_EveryRaiseLogged ==
    /\ outcome = "raised" => (Len(log) > 0 /\ LastLog = Rec("error", "Entrypoint error"))
    /\ (pc = "done" /\ (~AllPresent \/ \E s \in SlotSet : Exhausted(s))) => outcome = "returned"

\* C15, amended: an exception raised by Assistant(), AgentSession(...),
\* session.start or the greeting, other than the greeting timeout, always
\* leaves entrypoint; it is logged first when it is an Exception, and it is
\* not logged when it is a CancelledError; nothing else leaves entrypoint,
\* and a run ended by a missing credential or an exhausted slot returns
\* normally with no such log record.
C15_ExceptionLoggedAndReraised ==
    /\ UnexpectedRaise <=> outcome = "raised"
    /\ outcome = "raised" => pc = "done" /\ raised = LastCall.result
    /\ raised = "Exception" => LastLog = Rec("error", "Entrypoint error")
    /\ EntrypointErrorLogged => raised = "Exception"
    /\ (pc = "done" /\ (~AllPresent \/ \E s \in SlotSet : Exhausted(s))) =>
          outcome = "returned" /\ raised = "none"

\* C15 witness: session.start raised an Exception and entrypoint re-raised it.
C15_Witness ==
    /\ Len(calls) > 0
    /\ LastCall = Ext("session.start", "Exception")
    /\ outcome = "raised"
    /\ EntrypointErrorLogged

----------------------------------------------------------------------------
(* The tag say derives for its message *)

HasDevanagari(v) == CodePoints(v) \cap DevanagariBlock # {}
HasArabic(v) == CodePoints(v) \cap ArabicBlocks # {}
\* The audit records of the current call of say.
AuditRecs == SelectSeq(sayLog, LAMBDA r : r.msg = "Assistant responding in")

\* C16, as claimed: the tag logged for a message with a Devanagari code
\* point is the Devanagari one, and the Arabic-script tag is logged only for
\* a message with no Devanagari code point.
C16_DevanagariPrecedence ==
    \A i \in 1..Len(AuditRecs) :
        /\ HasDevanagari(sayArgs.message) => AuditRecs[i].lang = "English (from Hindi input)"
        /\ AuditRecs[i].lang = "Urdu" => ~HasDevanagari(sayArgs.message)

\* C16, amended: the tag say logs is "Urdu" exactly when the message has an
\* Arabic-block code point, with or without Devanagari; it is the Devanagari
\* tag exactly when the message has a Devanagari and no Arabic-block code
\* point; it is "English" otherwise. The two checks themselves are both
\* true of a message that has both.
C16_ArabicPrecedenceInSay ==
    /\ \A i \in 1..Len(AuditRecs) :
          LET m == sayArgs.message IN
          /\ AuditRecs[i].lang = "Urdu" <=> HasArabic(m)
          /\ AuditRecs[i].lang = "English (from Hindi input)" <=> (HasDevanagari(m) /\ ~HasArabic(m))
          /\ AuditRecs[i].lang = "English" <=> (~HasDevanagari(m) /\ ~HasArabic(m))
    /\ (HasDevanagari(sayArgs.message) /\ HasArabic(sayArgs.message)) =>
          is_hindi_input(sayArgs.message) /\ is_urdu_script(sayArgs.message)
    /\ Len(AuditRecs) <= 1

\* C16 witness: a message with a Devanagari and an Arabic code point has
\* been audited and tagged "Urdu".
C16_Witness ==
    /\ sayArgs.message = Str(<<2310, 1570>>)
    /\ Len(AuditRecs) = 1
    /\ AuditRecs[1].lang = "Urdu"

----------------------------------------------------------------------------
(* The decision on the way to the language model *)

\* The decision of _should_respond_in_urdu as the annotation would name it.
RequiredOutputScript(v) == IF should_respond_in_urdu(v) THEN "Arabic" ELSE "Latin"

\* C17: whenever a turn is generating its reply, the turn went through
\* Transcribed and then Classified before Generating, and the prompt the
\* language model was asked with carries the decision computed from this
\* turn's transcript.
C17_GenerationCarriesDecision ==
    turnStage = "Generating" =>
        /\ \E i, j \in DOMAIN stageTrace :
              /\ i < j
              /\ stageTrace[i] = "Transcribed"
              /\ stageTrace[j] = "Classified"
              /\ stageTrace[Len(stageTrace)] = "Generating"
              /\ j < Len(stageTrace)
        /\ prompt.annotation = RequiredOutputScript(transcript)

----------------------------------------------------------------------------
(* Agent state and the fallback phrase *)

\* C18: through any sequence of calls of say, with their script checks,
\* failures and recoveries, user_language_preference is still "english" and
\* conversation_history is still empty.
C18_NoLanguageStateRetained ==
    /\ user_language_preference = "english"
    /\ conversation_history = <<>>

\* C18 witness: the last of the turns has ended; it spoke an Arabic-script
\* message after at least one earlier turn.
C18_Witness ==
    /\ turns = MaxTurns
    /\ SayEnded
    /\ HasArabic(sayArgs.message)
    /\ Len(primCalls) = 1 /\ primCalls[1].result = "ok"

\* C19, as claimed: the fallback phrase is passed to super().say only after
\* a call of super().say on the original message failed in the same call
\* of say.
C19_FallbackOnlyAfterFailedCall ==
    \A i \in 1..Len(primCalls) :
        primCalls[i].message = fallback_msg =>
            \E j \in 1..(i - 1) :
                primCalls[j].message = sayArgs.message /\ primCalls[j].result # "ok"

\* C19, amended: the fallback phrase is passed to super().say only after an
\* Exception inside the try block of the same call: raised by the call on
\* the original message, which is then the first call and the fallback the
\* second, or raised by the audit (message[:100] of a message that is no
\* text), and then the fallback call is the only call and the original
\* message was never passed. For a text message only the first case occurs.
C19_FallbackAfterAnyExceptionInTry ==
    \A i \in 1..Len(primCalls) :
        primCalls[i].message = fallback_msg =>
            /\ sayLog[Len(sayLog)] = SayRec("error", "Error in say method", "-", <<>>)
            /\ \/ /\ i = 2
                  /\ primCalls[1].message = sayArgs.message
                  /\ primCalls[1].result = "Exception"
                  /\ sayArgs.message.kind = "str"
               \/ /\ i = 1
                  /\ Len(primCalls) = 1
                  /\ sayArgs.message.kind = "NoneType"
                  /\ AuditRecs = <<>>

\* C19 witness: say(None) has ended, having spoken the fallback phrase in
\* its only call of super().say.
C19_Witness ==
    /\ SayEnded
    /\ sayArgs.message = NoneValue
    /\ Len(primCalls) = 1
    /\ primCalls[1].message = fallback_msg
    /\ primCalls[1].result = "ok"
    /\ sayReturn = Ack(1, fallback_msg)

----------------------------------------------------------------------------
(* Termination of entrypoint *)

AllCtors == SelectSeq(calls, IsCtor)

\* The four ways a run can end.
EndedOnCredential == outcome = "returned" /\ ~AllPresent /\ calls = <<>>
EndedOnSlot == outcome = "returned" /\ AllPresent /\ session = "none"
                  /\ \E s \in SlotSet : Exhausted(s)
EndedRaised == outcome = "raised" /\ raised \in {"Exception", "CancelledError"}
EndedStarted ==
    /\ outcome = "returned" /\ AllPresent /\ session = "started"
    /\ \A s \in SlotSet : ~Exhausted(s)
    /\ LastCall \in {Ext("session.generate_reply", "ok"),
                     Ext("session.generate_reply", "TimeoutError")}
EndingsReached ==
    {e \in {"credential", "slot", "raised", "started"} :
        \/ e = "credential" /\ EndedOnCredential
        \/ e = "slot" /\ EndedOnSlot
        \/ e = "raised" /\ EndedRaised
        \/ e = "started" /\ EndedStarted}

C20_Safe ==
    /\ Len(AllCtors) <= 8
    /\ \A s \in SlotSet : Len(CtorsOf(s)) <= 2
    /\ \A i, j \in 1..Len(AllCtors) :
          (AllCtors[i].slot = AllCtors[j].slot /\ AllCtors[i].attempt = AllCtors[j].attempt)
              => i = j
    /\ pc = "done" => Cardinality(EndingsReached) = 1
    /\ pc # "done" => outcome = "running" /\ EndingsReached = {}

\* C20: in every run in which entrypoint keeps being resumed, each slot sees
\* at most two constructor calls and no call twice, at most eight in all,
\* and the run reaches its end, where exactly one of the four endings holds:
\* returned on a missing credential, returned on an exhausted slot, raised,
\* or returned with the session started and the greeting completed or
\* timed out.
C20_Terminates == [](C20_Safe) /\ <>[](pc = "done")

\* C20 witness: a run that made all eight constructor calls, every primary
\* failing, and ended with the session started.
C20_Witness ==
    /\ pc = "done"
    /\ Len(AllCtors) = 8
    /\ EndedStarted

====
